---- MODULE Spec2Model ----
(***************************************************************************)
(* A model of src/main.py: the command line tool that cuts a subject out   *)
(* of a foreground photo (GrabCut), casts a synthetic shadow and           *)
(* composites subject and shadow over a background.                        *)
(*                                                                         *)
(* Number representations                                                  *)
(*   - the light direction, the shadow length and the displacement         *)
(*     (main.py 69-77) are IEEE binary64 values, modelled exactly: a       *)
(*     double is [s, m, e] = s * m * 2^e with m a 53 bit mantissa kept in  *)
(*     four 14 bit limbs (TLC integers are 32 bit);                        *)
(*   - pixel fields (mask, shadow, opacities) are fixed point numbers with *)
(*     ONE = 2^10 standing for 1.0; 8 bit images are integers 0..255.      *)
(***************************************************************************)
EXTENDS Integers, Sequences, FiniteSets, TLC

VARIABLES
  pc,          \* position of the run in main() / generate_shadow()
  mode,        \* "main": the command line run; "call": generate_shadow called directly
  angle,       \* args.angle, degrees
  elevation,   \* args.elevation, degrees
  dirs,        \* directories that exist ("output" after ensure_dir)
  fg,          \* foreground image (RGB) or NoImage
  bg,          \* background image (RGB) or NoImage
  mask,        \* the soft mask, size of fg, or NoImage
  g,           \* the locals of generate_shadow, a record that grows step by step
  ret,         \* what generate_shadow returned: <<composite, shadow_only, mask_debug>> or <<>>
  files,       \* output files written so far: path -> image
  stdout,      \* lines printed
  err,         \* the exception that ended the run, or "none"
  exit         \* the exit status of the process, -1 while running

vars == <<pc, mode, angle, elevation, dirs, fg, bg, mask, g, ret, files, stdout, err, exit>>

----------------------------------------------------------------------------
(* Natural numbers of any size: little endian sequences of 14 bit limbs.   *)

BB == 2^14

Max2(a, b) == IF a >= b THEN a ELSE b

BLimb(a, i) == IF i >= 1 /\ i <= Len(a) THEN a[i] ELSE 0

RECURSIVE BCarry(_, _, _)
BCarry(s, i, c) ==
  IF i > Len(s)
  THEN IF c = 0 THEN <<>> ELSE <<c % BB>> \o BCarry(s, i, c \div BB)
  ELSE LET t == s[i] + c
       IN  <<t % BB>> \o BCarry(s, i + 1, t \div BB)

RECURSIVE BTrim(_)
BTrim(a) ==
  IF Len(a) > 0 /\ a[Len(a)] = 0 THEN BTrim(SubSeq(a, 1, Len(a) - 1)) ELSE a

BIsZero(a) == BTrim(a) = <<>>

RECURSIVE BCmpFrom(_, _, _)
BCmpFrom(a, b, i) ==
  IF i = 0 THEN 0
  ELSE IF BLimb(a, i) > BLimb(b, i) THEN 1
  ELSE IF BLimb(a, i) < BLimb(b, i) THEN -1
  ELSE BCmpFrom(a, b, i - 1)

BCmp(a, b) == BCmpFrom(a, b, Max2(Len(a), Len(b)))

RECURSIVE BSubFrom(_, _, _, _)
BSubFrom(a, b, i, borrow) ==
  IF i > Len(a) THEN <<>>
  ELSE LET t == a[i] - BLimb(b, i) - borrow
       IN  <<(t + BB) % BB>> \o BSubFrom(a, b, i + 1, IF t < 0 THEN 1 ELSE 0)

\* a - b for a >= b
BSub(a, b) == BSubFrom(a, b, 1, 0)

BAddSmall(a, k) == BCarry(a, 1, k)

RECURSIVE BColumn(_, _, _, _)
BColumn(a, b, k, i) ==
  IF i > Len(a) THEN 0
  ELSE a[i] * BLimb(b, k + 1 - i) + BColumn(a, b, k, i + 1)

BMul(a, b) ==
  IF Len(a) = 0 \/ Len(b) = 0 THEN <<>>
  ELSE BCarry([k \in 1..(Len(a) + Len(b) - 1) |-> BColumn(a, b, k, 1)], 1, 0)

\* a * 2^n
BShl(a, n) ==
  [i \in 1..(n \div 14) |-> 0] \o BCarry([i \in 1..Len(a) |-> a[i] * 2^(n % 14)], 1, 0)

\* floor(a / 2^n)
BShr(a, n) ==
  LET q == n \div 14
      r == n % 14
  IN  IF q >= Len(a) THEN <<>>
      ELSE [i \in 1..(Len(a) - q) |->
              (a[i + q] \div 2^r) + (BLimb(a, i + q + 1) % 2^r) * 2^(14 - r)]

\* bit k (bit 0 is the lowest) of a
BBit(a, k) == (BLimb(a, k \div 14 + 1) \div 2^(k % 14)) % 2

RECURSIVE BitsOf(_)
BitsOf(n) == IF n = 0 THEN 0 ELSE 1 + BitsOf(n \div 2)

BitLen(a) ==
  LET t == BTrim(a)
  IN  IF t = <<>> THEN 0 ELSE 14 * (Len(t) - 1) + BitsOf(t[Len(t)])

RECURSIVE BToInt(_)
\* the value as a TLC integer (the caller knows it is below 2^31)
BToInt(a) == IF a = <<>> THEN 0 ELSE a[1] + BB * BToInt(Tail(a))

RECURSIVE BDivLoop(_, _, _, _)
\* n more steps of binary long division: the remainder r is doubled, the
\* quotient q gets one more bit (q has a limb from the start; asking for its
\* length makes TLC evaluate it at every step instead of nesting 56 deep)
BDivLoop(r, d, q, n) ==
  IF n = 0 \/ Len(q) = 0 \/ Len(d) = 0 THEN [q |-> q, r |-> r]
  ELSE LET r2 == BShl(r, 1)
           ge == BCmp(r2, d) >= 0
       IN  BDivLoop(IF ge THEN BSub(r2, d) ELSE r2, d,
                    BCarry([i \in 1..Len(q) |-> 2 * q[i]], 1, IF ge THEN 1 ELSE 0),
                    n - 1)

----------------------------------------------------------------------------
(* IEEE binary64 (Python float, np.float64): s * m * 2^e, m < 2^53, and    *)
(* m >= 2^52 unless the value is zero. Round to nearest, ties to even.     *)
(* Subnormals, infinities and NaN do not occur for the inputs modelled.    *)

DZero == [s |-> 1, m |-> <<0, 0, 0, 0>>, e |-> 0]

DIsZero(x) == BIsZero(x.m)

\* the double nearest to s * p * 2^e (sticky: a non-zero part below p was cut)
RoundToDouble(s, p, e, sticky) ==
  LET n == BitLen(p)
  IN  IF n = 0 THEN DZero
      ELSE IF n <= 53
      THEN [s |-> s, m |-> SubSeq(BShl(BTrim(p), 53 - n) \o <<0, 0, 0>>, 1, 4),
            e |-> e - (53 - n)]
      ELSE LET sh   == n - 53
               q    == BShr(p, sh)
               rbit == BBit(p, sh - 1)
               low  == sticky \/ BCmp(BShl(BShr(p, sh - 1), sh - 1), p) # 0
               up   == rbit = 1 /\ (low \/ BBit(q, 0) = 1)
               q1   == IF up THEN BAddSmall(q, 1) ELSE q
           IN  IF BitLen(q1) > 53
               THEN [s |-> s, m |-> SubSeq(BShr(q1, 1) \o <<0, 0, 0>>, 1, 4),
                     e |-> e + sh + 1]
               ELSE [s |-> s, m |-> SubSeq(q1 \o <<0, 0, 0>>, 1, 4), e |-> e + sh]

DFromInt(n) ==
  RoundToDouble(IF n < 0 THEN -1 ELSE 1, BCarry(<<>>, 1, IF n < 0 THEN -n ELSE n), 0, FALSE)

DMul(x, y) ==
  IF DIsZero(x) \/ DIsZero(y) THEN DZero
  ELSE RoundToDouble(x.s * y.s, BMul(x.m, y.m), x.e + y.e, FALSE)

\* x / y, y # 0
DDiv(x, y) ==
  IF DIsZero(x) THEN DZero
  ELSE LET first == BCmp(x.m, y.m) >= 0
           dv    == BDivLoop(IF first THEN BSub(x.m, y.m) ELSE x.m, y.m,
                             IF first THEN <<1>> ELSE <<0>>, 56)
       IN  RoundToDouble(x.s * y.s, dv.q, x.e - y.e - 56, ~BIsZero(dv.r))

\* x > y
DGt(x, y) ==
  IF DIsZero(x) THEN (~DIsZero(y) /\ y.s = -1)
  ELSE IF DIsZero(y) THEN x.s = 1
  ELSE IF x.s # y.s THEN x.s = 1
  ELSE LET bigger == x.e > y.e \/ (x.e = y.e /\ BCmp(x.m, y.m) > 0)
           equal  == x.e = y.e /\ BCmp(x.m, y.m) = 0
       IN  IF x.s = 1 THEN bigger ELSE (~bigger /\ ~equal)

DGe(x, y) == ~DGt(y, x)

\* Python's max(a, b): b when b > a, otherwise a
PyMax(a, b) == IF DGt(b, a) THEN b ELSE a

\* Python's int(x): truncation towards zero (|x| < 2^28 here)
PyInt(x) ==
  IF DIsZero(x) THEN 0
  ELSE IF x.e >= 0 THEN x.s * BToInt(BTrim(BShl(x.m, x.e)))
  ELSE x.s * BToInt(BTrim(BShr(x.m, -x.e)))

ONE == 2^10

\* a double as a fixed point pixel quantity: trunc(x * ONE) (|x| < 2^17)
ToFx(x) ==
  IF DIsZero(x) THEN 0
  ELSE IF x.e + 10 >= 0 THEN x.s * BToInt(BTrim(BShl(x.m, x.e + 10)))
  ELSE x.s * BToInt(BTrim(BShr(x.m, -(x.e + 10))))

----------------------------------------------------------------------------
(* Bounds of the model: the largest image is MaxH rows by MaxW columns.    *)

MaxH == 8
MaxW == 2

MaxDim == Max2(MaxH, MaxW)

----------------------------------------------------------------------------
(* Fixed point helpers.                                                     *)

\* exp(-x) for x = xs / 2^15 >= 0, as an integer in units of 2^-15: range
\* reduction by ln 2 and the Taylor series of exp(-r) to nine terms
ExpScale == 2^15
Ln2Scaled == 22713

RECURSIVE ExpTaylor(_, _, _, _)
ExpTaylor(r, term, i, acc) ==
  IF i > 9 THEN acc
  ELSE LET t == (term * r) \div (ExpScale * i)
       IN  ExpTaylor(r, t, i + 1, IF i % 2 = 0 THEN acc + t ELSE acc - t)

ExpNegScaled(xs) ==
  LET k == xs \div Ln2Scaled
      r == xs % Ln2Scaled
  IN  IF k > 30 THEN 0 ELSE ExpTaylor(r, ExpScale, 1, ExpScale) \div 2^k

RECURSIVE Gcd(_, _)
Gcd(a, b) == IF b = 0 THEN a ELSE Gcd(b, a % b)

\* num / den in units of 1 / ExpScale, the fraction ExpScale / den reduced first
Scaled(num, den) ==
  (num * (ExpScale \div Gcd(ExpScale, den))) \div (den \div Gcd(ExpScale, den))

\* np.exp(-num / den) in units of 1 / scale, rounded to nearest; for a
\* negative num the reciprocal of exp(-|num| / den)
ExpNeg(num, den, scale) ==
  IF num >= 0
  THEN (ExpNegScaled(Scaled(num, den)) * scale + ExpScale \div 2) \div ExpScale
  ELSE (ExpScale * scale) \div ExpNegScaled(Scaled(-num, den))

RECURSIVE ISqrtBetween(_, _, _)
ISqrtBetween(v, lo, hi) ==
  IF lo >= hi THEN lo
  ELSE LET mid == (lo + hi + 1) \div 2
       IN  IF mid * mid <= v THEN ISqrtBetween(v, mid, hi) ELSE ISqrtBetween(v, lo, mid - 1)

\* floor(sqrt(v)), v < 2^30
ISqrt(v) == ISqrtBetween(v, 0, 2^15)

RECURSIVE SumTo(_, _, _)
\* F(lo) + ... + F(hi), by halving so that the recursion stays shallow
SumTo(F(_), lo, hi) ==
  IF lo > hi THEN 0
  ELSE IF lo = hi THEN F(lo)
  ELSE LET mid == (lo + hi) \div 2
       IN  SumTo(F, lo, mid) + SumTo(F, mid + 1, hi)

----------------------------------------------------------------------------
(* Images: a numpy array of shape (h, w) or (h, w, 3) is the tuple of its   *)
(* rows, each the tuple of its pixels; a colour pixel is a triple. The      *)
(* code's zero based pixel (y, x) is img[y + 1][x + 1].                     *)

NoImage == <<>>

At(img, y, x) == img[y + 1][x + 1]

\* the array F(y, x), y in 0..h-1, x in 0..w-1, with every element computed
MkImage(F(_, _), h, w) ==
  [y \in 1..h |-> [x \in 1..w |-> F(y - 1, x - 1)] \o <<>>] \o <<>>

MapImage(F(_), img) ==
  MkImage(LAMBDA y, x : F(At(img, y, x)), Len(img), Len(img[1]))

\* cv2.cvtColor(img, COLOR_BGR2RGB) and COLOR_RGB2BGR: the channels reversed
SwapRB(p) == <<p[3], p[2], p[1]>>

CvtColor(img) == MapImage(SwapRB, img)

\* cv2's BORDER_REFLECT_101 index for position p of an axis of length n
\* (borderInterpolate: p < 0 becomes -p, p >= n becomes 2n - 2 - p, repeated)
Reflect101(p, n) ==
  IF n = 1 THEN 0
  ELSE LET per == 2 * (n - 1)
           q   == ((p % per) + per) % per
       IN  IF q < n THEN q ELSE per - q

\* one axis of a separable filter: out[i] = sum_k wt[k + 1] * v[reflect(i + k - r)]
\* over the 2r + 1 taps, divided by the sum of the taps
FilterLine(v, wt, r) ==
  LET n   == Len(v)
      tot == SumTo(LAMBDA k : wt[k + 1], 0, 2 * r)
  IN  [i \in 1..n |->
         SumTo(LAMBDA k : wt[k + 1] * v[Reflect101(i - 1 + k - r, n) + 1], 0, 2 * r)
           \div tot] \o <<>>

Transpose(img) ==
  [x \in 1..Len(img[1]) |-> [y \in 1..Len(img) |-> img[y][x]] \o <<>>] \o <<>>

\* a separable filter with the same taps along both axes (rows first, as cv2)
FilterSeparable(img, wt, r) ==
  LET horiz == [y \in 1..Len(img) |-> FilterLine(img[y], wt, r)] \o <<>>
      tr    == Transpose(horiz)
      vert  == [x \in 1..Len(tr) |-> FilterLine(tr[x], wt, r)] \o <<>>
  IN  Transpose(vert)

----------------------------------------------------------------------------
(* extract_foreground_mask, main.py 26-51                                   *)

\* the literals of line 35 as doubles
D015 == [s |-> 1, m |-> <<13107, 3276, 13107, 1228>>, e |-> -55]
D005 == [s |-> 1, m |-> <<6554, 9830, 6553, 1638>>, e |-> -57]
D07  == [s |-> 1, m |-> <<9830, 6553, 9830, 1433>>, e |-> -53]
D09  == [s |-> 1, m |-> <<3277, 13107, 3276, 1843>>, e |-> -53]

\* line 35: rect = (int(w * 0.15), int(h * 0.05), int(w * 0.7), int(h * 0.9))
SeedRect(h, w) ==
  [x  |-> PyInt(DMul(DFromInt(w), D015)),
   y  |-> PyInt(DMul(DFromInt(h), D005)),
   rw |-> PyInt(DMul(DFromInt(w), D07)),
   rh |-> PyInt(DMul(DFromInt(h), D09))]

\* the pixels cv2.grabCut seeds as probable foreground: rect r cut to the image
RectPixels(r, h, w) ==
  {p \in (0..(h - 1)) \X (0..(w - 1)) :
     /\ p[1] >= r.y /\ p[1] < r.y + r.rh
     /\ p[2] >= r.x /\ p[2] < r.x + r.rw}

GmmComponents == 5

\* cv2.grabCut raises cv2.error when either colour model cannot be started:
\* k-means needs at least as many samples as the 5 components of a model;
\* px are the seeded pixels
GrabCutFails(px, h, w) ==
  \/ Cardinality(px) < GmmComponents
  \/ h * w - Cardinality(px) < GmmComponents

\* What grabCut can label foreground (GC_PR_FGD) after its 5 iterations: a
\* subset of the seeded rectangle, which one depends on the colours. The
\* model draws it from this family: nothing, everything, the upper rows, the
\* lower rows, the last row, the first seeded pixel.
Labelings(r, px) ==
  { {}, px,
    {p \in px : p[1] < r.y + r.rh \div 2},
    {p \in px : p[1] >= r.y + r.rh \div 2},
    {p \in px : p[1] = r.y + r.rh - 1},
    {p \in px : p[1] = r.y /\ p[2] = r.x} }

\* lines 42-44: 1.0 where the label is GC_FGD or GC_PR_FGD, else 0.0
BinaryMask(h, w, fgd) ==
  MkImage(LAMBDA y, x : IF <<y, x>> \in fgd THEN ONE ELSE 0, h, w)

MorphRadius == 2

\* the in-image neighbours of (y, x) under the 5 x 5 structuring element
Window(h, w, y, x) ==
  {q \in (0..(h - 1)) \X (0..(w - 1)) :
     /\ q[1] >= y - MorphRadius /\ q[1] <= y + MorphRadius
     /\ q[2] >= x - MorphRadius /\ q[2] <= x + MorphRadius}

\* cv2.dilate / cv2.erode with a 5 x 5 box; pixels outside the image do not count
Dilate(img) ==
  MkImage(LAMBDA y, x :
            IF \E q \in Window(Len(img), Len(img[1]), y, x) : At(img, q[1], q[2]) > 0
            THEN ONE ELSE 0,
          Len(img), Len(img[1]))

Erode(img) ==
  MkImage(LAMBDA y, x :
            IF \A q \in Window(Len(img), Len(img[1]), y, x) : At(img, q[1], q[2]) > 0
            THEN ONE ELSE 0,
          Len(img), Len(img[1]))

\* line 48: cv2.morphologyEx(mask, cv2.MORPH_CLOSE, kernel)
MorphClose(img) == Erode(Dilate(img))

\* line 49: cv2.GaussianBlur(mask, (5, 5), 0) uses the fixed taps 1 4 6 4 1 / 16
Blur5(img) == FilterSeparable(img, <<1, 4, 6, 4, 1>>, 2)

\* the mask extract_foreground_mask returns when grabCut labelled fgd
ExtractForegroundMask(img, fgd) ==
  Blur5(MorphClose(BinaryMask(Len(img), Len(img[1]), fgd)))

----------------------------------------------------------------------------
(* generate_shadow, main.py 59-137                                          *)

\* one channel of cv2.resize(..., (W, H)) with INTER_LINEAR at destination
\* pixel (Y, X): source position ((Y + 0.5) * h / H - 0.5, ...) clamped to the
\* image, the four neighbours weighted by the fractions; the value times den
BilinearNum(Get(_, _), h, w, H, W, Y, X) ==
  LET ny  == (2 * Y + 1) * h - H
      nx  == (2 * X + 1) * w - W
      sy0 == IF ny < 0 THEN -1 ELSE ny \div (2 * H)
      sx0 == IF nx < 0 THEN -1 ELSE nx \div (2 * W)
      sy  == IF sy0 < 0 THEN 0 ELSE IF sy0 >= h - 1 THEN h - 1 ELSE sy0
      sx  == IF sx0 < 0 THEN 0 ELSE IF sx0 >= w - 1 THEN w - 1 ELSE sx0
      fy  == IF sy0 < 0 \/ sy0 >= h - 1 THEN 0 ELSE ny - sy0 * 2 * H
      fx  == IF sx0 < 0 \/ sx0 >= w - 1 THEN 0 ELSE nx - sx0 * 2 * W
      sy1 == IF sy + 1 <= h - 1 THEN sy + 1 ELSE sy
      sx1 == IF sx + 1 <= w - 1 THEN sx + 1 ELSE sx
  IN  (2 * H - fy) * ((2 * W - fx) * Get(sy, sx) + fx * Get(sy, sx1))
        + fy * ((2 * W - fx) * Get(sy1, sx) + fx * Get(sy1, sx1))

\* line 63: the 8 bit colour image resized, each channel rounded to nearest
ResizeColour(img, H, W) ==
  MkImage(LAMBDA Y, X :
            [c \in 1..3 |->
               (BilinearNum(LAMBDA y, x : At(img, y, x)[c],
                            Len(img), Len(img[1]), H, W, Y, X) + 2 * H * W)
                 \div (4 * H * W)],
          H, W)

\* line 64: the float mask resized
ResizeMask(img, H, W) ==
  MkImage(LAMBDA Y, X :
            BilinearNum(LAMBDA y, x : At(img, y, x),
                        Len(img), Len(img[1]), H, W, Y, X) \div (4 * H * W),
          H, W)

\* np.deg2rad(x) = x * (pi / 180)
DPi180 == [s |-> 1, m |-> <<7481, 2378, 13418, 1143>>, e |-> -58]

Deg2Rad(deg) == DMul(DFromInt(deg), DPi180)

\* np.cos, np.sin and np.tan at the radian arguments the model uses: the
\* binary64 results of the C library for exactly these doubles
TrigTable ==
  {
    [deg |-> -10,
     x   |-> [s |-> -1, m |-> <<1159, 11165, 12676, 1429>>, e |-> -55],
     cos |-> [s |-> 1, m |-> <<7191, 12804, 14520, 2016>>, e |-> -53],
     sin |-> [s |-> -1, m |-> <<13193, 14381, 8615, 1422>>, e |-> -55],
     tan |-> [s |-> -1, m |-> <<3004, 12055, 7710, 1444>>, e |-> -55]],
    [deg |-> 0,
     x   |-> DZero,
     cos |-> [s |-> 1, m |-> <<0, 0, 0, 1024>>, e |-> -52],
     sin |-> DZero,
     tan |-> DZero],
    [deg |-> 10,
     x   |-> [s |-> 1, m |-> <<1159, 11165, 12676, 1429>>, e |-> -55],
     cos |-> [s |-> 1, m |-> <<7191, 12804, 14520, 2016>>, e |-> -53],
     sin |-> [s |-> 1, m |-> <<13193, 14381, 8615, 1422>>, e |-> -55],
     tan |-> [s |-> 1, m |-> <<3004, 12055, 7710, 1444>>, e |-> -55]],
    [deg |-> 35,
     x   |-> [s |-> 1, m |-> <<7158, 1577, 852, 1251>>, e |-> -53],
     cos |-> [s |-> 1, m |-> <<1863, 9302, 10213, 1677>>, e |-> -53],
     sin |-> [s |-> 1, m |-> <<2424, 8689, 11215, 1174>>, e |-> -53],
     tan |-> [s |-> 1, m |-> <<16250, 3714, 410, 1434>>, e |-> -53]],
    [deg |-> 60,
     x   |-> [s |-> 1, m |-> <<13157, 8373, 5411, 1072>>, e |-> -52],
     cos |-> [s |-> 1, m |-> <<1, 0, 0, 1024>>, e |-> -53],
     sin |-> [s |-> 1, m |-> <<3242, 8545, 10158, 1773>>, e |-> -53],
     tan |-> [s |-> 1, m |-> <<3240, 8545, 10158, 1773>>, e |-> -52]],
    [deg |-> 89,
     x   |-> [s |-> 1, m |-> <<8867, 9963, 10211, 1590>>, e |-> -52],
     cos |-> [s |-> 1, m |-> <<7479, 11815, 12466, 1143>>, e |-> -58],
     sin |-> [s |-> 1, m |-> <<12170, 8150, 11273, 2047>>, e |-> -53],
     tan |-> [s |-> 1, m |-> <<6729, 6610, 4567, 1833>>, e |-> -47]],
    [deg |-> 90,
     x   |-> [s |-> 1, m |-> <<11544, 4368, 8117, 1608>>, e |-> -52],
     cos |-> [s |-> 1, m |-> <<7175, 3153, 8803, 1129>>, e |-> -106],
     sin |-> [s |-> 1, m |-> <<0, 0, 0, 1024>>, e |-> -52],
     tan |-> [s |-> 1, m |-> <<3509, 12487, 10599, 1856>>, e |-> 1]],
    [deg |-> 135,
     x   |-> [s |-> 1, m |-> <<8658, 15564, 6087, 1206>>, e |-> -51],
     cos |-> [s |-> -1, m |-> <<15308, 6652, 2534, 1448>>, e |-> -53],
     sin |-> [s |-> 1, m |-> <<15309, 6652, 2534, 1448>>, e |-> -53],
     tan |-> [s |-> -1, m |-> <<1, 0, 0, 1024>>, e |-> -52]],
    [deg |-> 360,
     x   |-> [s |-> 1, m |-> <<11544, 4368, 8117, 1608>>, e |-> -50],
     cos |-> [s |-> 1, m |-> <<0, 0, 0, 1024>>, e |-> -52],
     sin |-> [s |-> -1, m |-> <<7175, 3153, 8803, 1129>>, e |-> -104],
     tan |-> [s |-> -1, m |-> <<7175, 3153, 8803, 1129>>, e |-> -104]],
    [deg |-> 420,
     x   |-> [s |-> 1, m |-> <<2546, 2366, 9470, 1876>>, e |-> -50],
     cos |-> [s |-> 1, m |-> <<16379, 16383, 16383, 2047>>, e |-> -54],
     sin |-> [s |-> 1, m |-> <<3244, 8545, 10158, 1773>>, e |-> -53],
     tan |-> [s |-> 1, m |-> <<3248, 8545, 10158, 1773>>, e |-> -52]],
    [deg |-> 450,
     x   |-> [s |-> 1, m |-> <<14430, 9556, 10146, 2010>>, e |-> -50],
     cos |-> [s |-> 1, m |-> <<13065, 16229, 15099, 1411>>, e |-> -104],
     sin |-> [s |-> 1, m |-> <<0, 0, 0, 1024>>, e |-> -52],
     tan |-> [s |-> 1, m |-> <<6084, 159, 5203, 1485>>, e |-> -1]],
    [deg |-> 495,
     x   |-> [s |-> 1, m |-> <<7937, 10171, 13772, 1105>>, e |-> -49],
     cos |-> [s |-> -1, m |-> <<15312, 6652, 2534, 1448>>, e |-> -53],
     sin |-> [s |-> 1, m |-> <<15305, 6652, 2534, 1448>>, e |-> -53],
     tan |-> [s |-> -1, m |-> <<16374, 16383, 16383, 2047>>, e |-> -53]]
  }

Trig(x) == CHOOSE t \in TrigTable : t.x = x

\* lines 69-72
LightDir(deg) == <<Trig(Deg2Rad(deg)).cos, Trig(Deg2Rad(deg)).sin>>

D220 == DFromInt(220)
D02 == [s |-> 1, m |-> <<6554, 9830, 6553, 1638>>, e |-> -55]

\* line 74 without the floor on the tangent (only a zero tangent replaced)
ShadowLenUnfloored(t) == DDiv(D220, IF DIsZero(t) THEN D02 ELSE t)

\* line 74: shadow_len = 220 / max(0.2, np.tan(phi))
ShadowLenOfTan(t) == DDiv(D220, PyMax(D02, t))

ShadowLen(deg) == ShadowLenOfTan(Trig(Deg2Rad(deg)).tan)

\* lines 76-77: (dx, dy)
Displacement(adeg, edeg) ==
  <<PyInt(DMul(LightDir(adeg)[1], ShadowLen(edeg))),
    PyInt(DMul(LightDir(adeg)[2], ShadowLen(edeg)))>>

\* line 82: np.where(mask > 0.2) as the set of (y, x)
AboveThreshold(m) ==
  {p \in (0..(Len(m) - 1)) \X (0..(Len(m[1]) - 1)) : 5 * At(m, p[1], p[2]) > ONE}

SetMax(S) == CHOOSE a \in S : \A b \in S : a >= b
SetMin(S) == CHOOSE a \in S : \A b \in S : a <= b

RECURSIVE SumOf(_, _)
SumOf(F(_), S) ==
  IF S = {} THEN 0 ELSE LET a == CHOOSE b \in S : TRUE IN F(a) + SumOf(F, S \ {a})

\* line 83: ys.max()
FootY(m) == SetMax({p[1] : p \in AboveThreshold(m)})

\* the mean column of the pixels of row foot_y alone
FootXOfFootRow(m) ==
  SumOf(LAMBDA p : p[2], {p \in AboveThreshold(m) : p[1] = FootY(m)})
    \div Cardinality({p \in AboveThreshold(m) : p[1] = FootY(m)})

\* line 84: int(xs.mean())
FootX(m) ==
  SumOf(LAMBDA p : p[2], AboveThreshold(m)) \div Cardinality(AboveThreshold(m))

\* lines 89-91: cv2.warpAffine with [[1, 0, dx], [0, 1, dy]]: dst(y, x) = src(y - dy, x - dx),
\* zero where the source lies outside
WarpShift(m, dx, dy) ==
  MkImage(LAMBDA y, x :
            IF /\ y - dy >= 0 /\ y - dy < Len(m)
               /\ x - dx >= 0 /\ x - dx < Len(m[1])
            THEN At(m, y - dy, x - dx) ELSE 0,
          Len(m), Len(m[1]))

\* line 98: the projection of (x - foot_x, y - foot_y) on the light direction
Projection(y, x, fy, fx, ld) == (x - fx) * ToFx(ld[1]) + (y - fy) * ToFx(ld[2])

\* line 99 left out
Unclipped(d) == d

\* line 99: np.clip(dist, 0, None)
ClipLow(d) == IF d < 0 THEN 0 ELSE d

DistField(H, W, fy, fx, ld) ==
  MkImage(LAMBDA y, x : ClipLow(Projection(y, x, fy, fx, ld)), H, W)

FalloffDecay == 160

\* line 104: np.exp(-dist / 160)
Falloff(d) == ExpNeg(d, FalloffDecay * ONE, ONE)

\* cv2.GaussianBlur(img, (0, 0), sigma) on a float image: 8 sigma + 1 taps
\* exp(-k^2 / (2 sigma^2)), normalised, border reflected (REFLECT_101)
GaussTaps(sigma) ==
  [k \in 1..(8 * sigma + 1) |->
     ExpNeg((k - 1 - 4 * sigma) * (k - 1 - 4 * sigma), 2 * sigma * sigma, 2^12)] \o <<>>

\* line 109: the four radii
BlurRadii == <<3, 7, 15, 30>>

\* the taps of one radius folded on an axis of n pixels: entry [i][j] is the
\* weight with which pixel j enters output pixel i
FoldTaps(wt, r, n) ==
  [i \in 1..n |->
     [j \in 1..n |->
        SumTo(LAMBDA k : IF Reflect101(i - 1 + k - r, n) = j - 1 THEN wt[k + 1] ELSE 0,
              0, 2 * r)] \o <<>>] \o <<>>

FoldedLine(v, fold) ==
  [i \in 1..Len(v) |->
     SumTo(LAMBDA j : fold[i][j] * v[j], 1, Len(v))
       \div SumTo(LAMBDA j : fold[i][j], 1, Len(v))] \o <<>>

\* the folded taps of the four radii for every axis length of the model
FoldCache ==
  [i \in 1..Len(BlurRadii) |->
     [n \in 1..MaxDim |-> FoldTaps(GaussTaps(BlurRadii[i]), 4 * BlurRadii[i], n)] \o <<>>]
    \o <<>>

\* cv2.GaussianBlur(img, (0, 0), BlurRadii[i]): rows, then columns
GaussianBlur(img, i) ==
  LET horiz == [y \in 1..Len(img) |-> FoldedLine(img[y], FoldCache[i][Len(img[1])])] \o <<>>
      tr    == Transpose(horiz)
      vert  == [x \in 1..Len(tr) |-> FoldedLine(tr[x], FoldCache[i][Len(img)])] \o <<>>
  IN  Transpose(vert)

\* lines 107-112: the mean of the four blurs
Blurred(sh) ==
  LET b == [i \in 1..Len(BlurRadii) |-> GaussianBlur(sh, i)] \o <<>>
  IN  MkImage(LAMBDA y, x : SumTo(LAMBDA i : At(b[i], y, x), 1, Len(BlurRadii))
                              \div Len(BlurRadii),
              Len(sh), Len(sh[1]))

\* line 113: shadow = blurred * opacity
SoftShadow(bl, op) ==
  MkImage(LAMBDA y, x : (At(bl, y, x) * At(op, y, x)) \div ONE, Len(bl), Len(bl[1]))

\* lines 118-119: inv = 1 - mask is zero exactly where mask is 1.0
FullPixels(m) ==
  {p \in (0..(Len(m) - 1)) \X (0..(Len(m[1]) - 1)) : At(m, p[1], p[2]) = ONE}

\* scipy's distance_transform_edt(inv): the distance from each pixel to the
\* nearest pixel where inv is zero. When inv has no zero the transform has no
\* feature to measure from; `none` is what it then yields for row y.
EdtField(m, none) ==
  MkImage(LAMBDA y, x :
            IF FullPixels(m) = {} THEN none[y + 1]
            ELSE ISqrt(SetMin({(p[1] - y) * (p[1] - y) + (p[2] - x) * (p[2] - x) :
                                 p \in FullPixels(m)}) * ONE * ONE),
          Len(m), Len(m[1]))

\* the outcomes modelled for an input without zeros: the feature transform
\* left at its initial -1 (distance y + 1), or a far feature
EdtWithoutZero(H) ==
  { [y \in 1..H |-> y * ONE], [y \in 1..H |-> 64 * ONE] }

ContactDecay == 4
ContactBand == 5

\* line 120: contact = np.exp(-contact_dist / 4.0)
ContactOpacity(d) == ExpNeg(d, ContactDecay * ONE, ONE)

\* line 121 left out
BandEverywhere(y, fy) == TRUE

\* line 121: contact[yy < foot_y - 5] = 0
InContactBand(y, fy) == ~(y < fy - ContactBand)

ContactField(edt, fy) ==
  MkImage(LAMBDA y, x : IF InContactBand(y, fy) THEN ContactOpacity(At(edt, y, x)) ELSE 0,
          Len(edt), Len(edt[1]))

Clip01(v) == IF v < 0 THEN 0 ELSE IF v > ONE THEN ONE ELSE v

\* lines 123-124: np.clip(np.maximum(shadow, contact * 0.85), 0, 1)
MergeShadow(soft, contact) == Clip01(Max2(soft, (contact * 85) \div 100))

FinalShadow(soft, contact) ==
  MkImage(LAMBDA y, x : MergeShadow(At(soft, y, x), At(contact, y, x)),
          Len(soft), Len(soft[1]))

\* line 131 without the (1 - mask) factor on the darkened background
BlendOver(b, f, sh, m) == (b * (ONE - sh)) * ONE + f * m * ONE

\* lines 130-131 for one channel: bg * (1 - shadow) * (1 - mask) + fg * mask,
\* in units of 1 / ONE^2
Blend(b, f, sh, m) == (b * (ONE - sh)) * (ONE - m) + f * m * ONE

\* ndarray.astype(np.uint8) of the value v / ONE^2: the integer part, modulo 256
AsUint8(v) == (v \div (ONE * ONE)) % 256

CompositeFloat(bgi, fgi, sh, m) ==
  MkImage(LAMBDA y, x :
            [c \in 1..3 |-> Blend(At(bgi, y, x)[c], At(fgi, y, x)[c], At(sh, y, x), At(m, y, x))],
          Len(bgi), Len(bgi[1]))

\* lines 133-137
Composite(comp) == MapImage(LAMBDA p : [c \in 1..3 |-> AsUint8(p[c])], comp)

ShadowOnly(sh) == MapImage(LAMBDA v : AsUint8(v * 255 * ONE), sh)

\* the debug image built from the mask as it came in, before line 64
MaskDebugUnresized(m) == MapImage(LAMBDA v : AsUint8(v * 255 * ONE), mask)

MaskDebug(m) == MapImage(LAMBDA v : AsUint8(v * 255 * ONE), m)

----------------------------------------------------------------------------
(* The inputs of the model.                                                 *)

\* --angle and --elevation, in degrees
Angles == {0, 60, 90, 135}
Elevations == {-10, 0, 10, 35, 89, 90}

\* the lights under which every image of the model is run; under the other
\* lights only the first image of each set is
CoreLights == {<<135, 35>>, <<90, 89>>, <<60, 89>>, <<0, 90>>}

FgSizes(a, e) ==
  IF <<a, e>> \in CoreLights
  THEN {<<MaxH, MaxW>>, <<MaxH - 1, MaxW>>, <<MaxH - 4, MaxW>>}
  ELSE {<<MaxH, MaxW>>}

BgSizes(a, e) ==
  IF <<a, e>> \in CoreLights
  THEN {<<MaxH, MaxW>>, <<MaxH - 1, MaxW - 1>>, <<MaxH - 4, MaxW>>}
  ELSE {<<MaxH, MaxW>>}

\* what cv2.imread returns for the two files (BGR order)
FgFile(sz) ==
  MkImage(LAMBDA y, x : <<IF (x + y) % 2 = 0 THEN 255 ELSE 30,
                          (40 * y + 10) % 256,
                          (90 * x + 7 * y) % 256>>, sz[1], sz[2])

BgFile(sz) ==
  MkImage(LAMBDA y, x : <<255, (200 + 231 * y) % 256, (60 * x) % 256>>, sz[1], sz[2])

\* masks for a direct call of generate_shadow with an h x w foreground
CallMasks(h, w) ==
  { MkImage(LAMBDA y, x : 0, h, w),
    MkImage(LAMBDA y, x : ONE, h, w),
    MkImage(LAMBDA y, x : ONE \div 2, h, w),
    MkImage(LAMBDA y, x : IF y >= h - 2 THEN ONE ELSE 0, h, w),
    MkImage(LAMBDA y, x : IF y = h - 1 THEN ONE \div 4 ELSE ONE \div 8, h, w),
    MkImage(LAMBDA y, x : IF (y = 0 /\ x = 0) \/ (y = h - 1 /\ x = w - 1) THEN ONE ELSE 0, h, w) }

CallSizes == {<<MaxH, MaxW>>, <<MaxH - 4, MaxW - 1>>}

\* the locals of generate_shadow before it runs
NoLocals ==
  [fg_rgb |-> <<>>, mask |-> <<>>, light_dir |-> <<>>, shadow_len |-> DZero,
   dx |-> 0, dy |-> 0, foot_y |-> -1, foot_x |-> -1, shadow |-> <<>>,
   dist |-> <<>>, opacity |-> <<>>, soft |-> <<>>, contact_dist |-> <<>>,
   contact |-> <<>>,
   final |-> <<>>, comp |-> <<>>]

NoFiles == [composite |-> <<>>, shadow_only |-> <<>>, mask_debug |-> <<>>]

Init ==
  /\ dirs = {}
  /\ g = NoLocals
  /\ ret = <<>>
  /\ files = NoFiles
  /\ stdout = <<>>
  /\ err = "none"
  /\ exit = -1
  /\ \/ /\ mode = "main"
        /\ pc = "parse_args"
        /\ angle = 135
        /\ elevation = 35
        /\ fg = NoImage
        /\ bg = NoImage
        /\ mask = NoImage
     \/ /\ mode = "call"
        /\ pc = "gs_resize"
        /\ \E l \in CoreLights : angle = l[1] /\ elevation = l[2]
        /\ \E fs \in CallSizes, bs \in CallSizes :
             /\ fg = CvtColor(FgFile(fs))
             /\ bg = CvtColor(BgFile(bs))
             /\ mask \in CallMasks(fs[1], fs[2])

\* an uncaught exception: the traceback, exit status 1
Raise(e) ==
  /\ pc' = "failed"
  /\ err' = e
  /\ exit' = IF mode = "main" THEN 1 ELSE exit

----------------------------------------------------------------------------
(* main, main.py 145-169                                                    *)

\* lines 146-151
ParseArgs ==
  /\ pc = "parse_args"
  /\ \E a \in Angles, e \in Elevations : angle' = a /\ elevation' = e
  /\ pc' = "ensure_dir"
  /\ UNCHANGED <<mode, dirs, fg, bg, mask, g, ret, files, stdout, err, exit>>

\* line 153: os.makedirs("output", exist_ok=True) creates the directory or raises
EnsureDir ==
  /\ pc = "ensure_dir"
  /\ \E ok \in BOOLEAN :
       IF ok THEN /\ dirs' = dirs \cup {"output"}
                  /\ pc' = "load_fg"
                  /\ UNCHANGED <<err, exit>>
       ELSE /\ Raise("OSError")
            /\ UNCHANGED dirs
  /\ UNCHANGED <<mode, angle, elevation, fg, bg, mask, g, ret, files, stdout>>

\* lines 17-18: cv2.imread gives None for a missing or undecodable file, and
\* cv2.cvtColor(None, ...) raises cv2.error
LoadRgb(file) == IF file = NoImage THEN NoImage ELSE CvtColor(file)

\* line 155
LoadFg ==
  /\ pc = "load_fg"
  /\ \E file \in {FgFile(sz) : sz \in FgSizes(angle, elevation)} \cup {NoImage} :
       IF file = NoImage THEN Raise("cv2.error") /\ UNCHANGED fg
       ELSE /\ fg' = LoadRgb(file)
            /\ pc' = "load_bg"
            /\ UNCHANGED <<err, exit>>
  /\ UNCHANGED <<mode, angle, elevation, dirs, bg, mask, g, ret, files, stdout>>

\* line 156
LoadBg ==
  /\ pc = "load_bg"
  /\ \E file \in {BgFile(sz) : sz \in BgSizes(angle, elevation)} \cup {NoImage} :
       IF file = NoImage THEN Raise("cv2.error") /\ UNCHANGED bg
       ELSE /\ bg' = LoadRgb(file)
            /\ pc' = "extract"
            /\ UNCHANGED <<err, exit>>
  /\ UNCHANGED <<mode, angle, elevation, dirs, fg, mask, g, ret, files, stdout>>

\* the labelings drawn for a run
LabelingsFor(a, e, r, px) ==
  IF <<a, e>> \in CoreLights THEN Labelings(r, px)
  ELSE {{p \in px : p[1] >= r.y + r.rh \div 2}}

\* lines 35-51 with the seed rectangle r
Segment(r) ==
  LET px == RectPixels(r, Len(fg), Len(fg[1]))
  IN  IF GrabCutFails(px, Len(fg), Len(fg[1]))
      THEN Raise("cv2.error") /\ UNCHANGED mask
      ELSE /\ \E fgd \in LabelingsFor(angle, elevation, r, px) :
                mask' = ExtractForegroundMask(fg, fgd)
           /\ pc' = "gs_resize"
           /\ UNCHANGED <<err, exit>>

\* lines 158-159
ExtractMask ==
  /\ pc = "extract"
  /\ stdout' = Append(stdout, "Extracting foreground mask...")
  /\ Segment(SeedRect(Len(fg), Len(fg[1])))
  /\ UNCHANGED <<mode, angle, elevation, dirs, fg, bg, g, ret, files>>

\* lines 60-64
GsResize ==
  /\ pc = "gs_resize"
  /\ g' = [g EXCEPT !.fg_rgb = ResizeColour(fg, Len(bg), Len(bg[1])),
                    !.mask = ResizeMask(mask, Len(bg), Len(bg[1]))]
  /\ pc' = "gs_light"
  /\ UNCHANGED <<mode, angle, elevation, dirs, fg, bg, mask, ret, files, stdout, err, exit>>

\* lines 69-77
GsLight ==
  /\ pc = "gs_light"
  /\ g' = [g EXCEPT !.light_dir = LightDir(angle),
                    !.shadow_len = ShadowLen(elevation),
                    !.dx = Displacement(angle, elevation)[1],
                    !.dy = Displacement(angle, elevation)[2]]
  /\ pc' = "gs_foot"
  /\ UNCHANGED <<mode, angle, elevation, dirs, fg, bg, mask, ret, files, stdout, err, exit>>

\* lines 82-84: ys.max() of an empty selection raises ValueError
GsFoot ==
  /\ pc = "gs_foot"
  /\ IF AboveThreshold(g.mask) = {}
     THEN Raise("ValueError") /\ UNCHANGED g
     ELSE /\ g' = [g EXCEPT !.foot_y = FootY(g.mask), !.foot_x = FootX(g.mask)]
          /\ pc' = "gs_project"
          /\ UNCHANGED <<err, exit>>
  /\ UNCHANGED <<mode, angle, elevation, dirs, fg, bg, mask, ret, files, stdout>>

\* lines 89-91
GsProject ==
  /\ pc = "gs_project"
  /\ g' = [g EXCEPT !.shadow = WarpShift(g.mask, g.dx, g.dy)]
  /\ pc' = "gs_falloff"
  /\ UNCHANGED <<mode, angle, elevation, dirs, fg, bg, mask, ret, files, stdout, err, exit>>

\* lines 96-104
GsFalloff ==
  /\ pc = "gs_falloff"
  /\ LET d == DistField(Len(bg), Len(bg[1]), g.foot_y, g.foot_x, g.light_dir)
     IN  g' = [g EXCEPT !.dist = d, !.opacity = MapImage(Falloff, d)]
  /\ pc' = "gs_blur"
  /\ UNCHANGED <<mode, angle, elevation, dirs, fg, bg, mask, ret, files, stdout, err, exit>>

\* lines 107-113
GsBlur ==
  /\ pc = "gs_blur"
  /\ g' = [g EXCEPT !.soft = SoftShadow(Blurred(g.shadow), g.opacity)]
  /\ pc' = "gs_contact"
  /\ UNCHANGED <<mode, angle, elevation, dirs, fg, bg, mask, ret, files, stdout, err, exit>>

\* lines 118-124
GsContact ==
  /\ pc = "gs_contact"
  /\ \E none \in EdtWithoutZero(Len(g.mask)) :
       LET d == EdtField(g.mask, none)
           c == ContactField(d, g.foot_y)
       IN  g' = [g EXCEPT !.contact_dist = d, !.contact = c,
                          !.final = FinalShadow(g.soft, c)]
  /\ pc' = "gs_composite"
  /\ UNCHANGED <<mode, angle, elevation, dirs, fg, bg, mask, ret, files, stdout, err, exit>>

\* lines 129-137: the three arrays of the return statement
GsComposite ==
  /\ pc = "gs_composite"
  /\ LET comp == CompositeFloat(bg, g.fg_rgb, g.final, g.mask)
     IN  /\ g' = [g EXCEPT !.comp = comp]
         /\ ret' = <<Composite(comp), ShadowOnly(g.final), MaskDebug(g.mask)>>
  /\ pc' = "gs_return"
  /\ UNCHANGED <<mode, angle, elevation, dirs, fg, bg, mask, files, stdout, err, exit>>

\* the return to line 161: the locals of generate_shadow are gone
GsReturn ==
  /\ pc = "gs_return"
  /\ g' = NoLocals
  /\ pc' = IF mode = "main" THEN "write_composite" ELSE "returned"
  /\ UNCHANGED <<mode, angle, elevation, dirs, fg, bg, mask, ret, files, stdout, err, exit>>

\* cv2.imwrite(path, img): the file is written and True returned, or nothing
\* is written and False returned (the file cannot be opened for writing);
\* main ignores the result
ImWrite(name, img, next) ==
  /\ \E ok \in BOOLEAN :
       files' = IF ok THEN [files EXCEPT ![name] = img] ELSE files
  /\ pc' = next
  /\ UNCHANGED <<mode, angle, elevation, dirs, fg, bg, mask, g, ret, stdout, err, exit>>

\* line 165
WriteComposite ==
  /\ pc = "write_composite"
  /\ ImWrite("composite", CvtColor(ret[1]), "write_shadow")

\* line 166
WriteShadow ==
  /\ pc = "write_shadow"
  /\ ImWrite("shadow_only", ret[2], "write_mask")

\* line 167
WriteMask ==
  /\ pc = "write_mask"
  /\ ImWrite("mask_debug", ret[3], "print_done")

\* line 169, and the normal end of the process
PrintDone ==
  /\ pc = "print_done"
  /\ stdout' = Append(stdout, "Done. Check /output folder")
  /\ exit' = 0
  /\ pc' = "done"
  /\ UNCHANGED <<mode, angle, elevation, dirs, fg, bg, mask, g, ret, files, err>>

Next ==
  \/ ParseArgs
  \/ EnsureDir
  \/ LoadFg
  \/ LoadBg
  \/ ExtractMask
  \/ GsResize
  \/ GsLight
  \/ GsFoot
  \/ GsProject
  \/ GsFalloff
  \/ GsBlur
  \/ GsContact
  \/ GsComposite
  \/ GsReturn
  \/ WriteComposite
  \/ WriteShadow
  \/ WriteMask
  \/ PrintDone

Spec == Init /\ [][Next]_vars

----------------------------------------------------------------------------
(* The properties.                                                          *)

Pixels(img) == (0..(Len(img) - 1)) \X (0..(Len(img[1]) - 1))

\* img is an array of exactly h rows of w pixels
HasShape(img, h, w) == Len(img) = h /\ \A y \in 1..Len(img) : Len(img[y]) = w

Written == {f \in DOMAIN files : files[f] # <<>>}

Ended == pc \in {"done", "failed"}

Confirmed == \E i \in 1..Len(stdout) : stdout[i] = "Done. Check /output folder"

\* 220 / 0.2
D1100 == DFromInt(1100)

TanOf(deg) == Trig(Deg2Rad(deg)).tan

\* C1: when the resized mask has no pixel above 0.2, generate_shadow ends in
\* a DegenerateMask error, returns nothing and no output file is written.
C1_DegenerateMaskRaised ==
  (g.mask # <<>> /\ g.light_dir # <<>> /\ pc # "gs_foot"
     /\ \A p \in Pixels(g.mask) : 5 * At(g.mask, p[1], p[2]) <= ONE)
    => (pc = "failed" /\ err = "DegenerateMask" /\ ret = <<>> /\ Written = {})

\* C2: a run of main that has ended has written all three output files or
\* none of them.
C2_AllOrNothing ==
  (mode = "main" /\ Ended) => Cardinality(Written) \in {0, 3}

\* C3: a failed run exits non-zero without the confirmation, and the
\* confirmation and the zero exit happen only when both images were loaded
\* and all three files were written.
C3_ConfirmationMeansWritten ==
  /\ (mode = "main" /\ pc = "failed") => (exit # 0 /\ ~Confirmed)
  /\ (mode = "main" /\ (Confirmed \/ exit = 0))
       => (fg # NoImage /\ bg # NoImage /\ Cardinality(Written) = 3)

\* C4: the three arrays generate_shadow returns have the background's height
\* and width, and the mask extract_foreground_mask returns has its input's.
C4_OutputShapes ==
  /\ ret # <<>> =>
       \A i \in 1..3 : HasShape(ret[i], Len(bg), Len(bg[1]))
  /\ (mode = "main" /\ mask # NoImage) => HasShape(mask, Len(fg), Len(fg[1]))

C4_Witness ==
  /\ mode = "main"
  /\ ret # <<>>
  /\ Len(fg) # Len(bg)
  /\ Len(fg[1]) # Len(bg[1])

\* C5: the shadow length lies in [0, 1100], is 1100 whenever the tangent of
\* the elevation is at most 0.2, does not grow with the tangent, and is
\* smallest at elevation 90.
C5_ShadowLength ==
  g.light_dir # <<>> =>
    /\ DGe(g.shadow_len, DZero)
    /\ DGe(D1100, g.shadow_len)
    /\ DGe(D02, TanOf(elevation)) => g.shadow_len = D1100
    /\ \A e \in Elevations :
         /\ DGe(TanOf(e), TanOf(elevation)) => DGe(g.shadow_len, ShadowLen(e))
         /\ elevation = 90 => DGe(ShadowLen(e), g.shadow_len)

C5_Witness ==
  /\ g.light_dir # <<>>
  /\ elevation = -10
  /\ DGt(DZero, TanOf(elevation))
  /\ g.shadow_len = D1100

\* C6: generate_shadow called with angle + 360 in place of angle computes
\* the same light direction and so the same integer displacement (dx, dy);
\* stated on the displacement, which is what the claim concludes.
C6_FullRotation ==
  g.light_dir # <<>> => Displacement(angle + 360, elevation) = <<g.dx, g.dy>>

\* C7: dist is the projection on the light direction clipped at 0; the
\* falloff multiplier is 1 where the projection is negative, lies in [0, 1]
\* and does not grow with dist.
C7_Falloff ==
  g.opacity # <<>> =>
    \A p \in Pixels(g.dist) :
      LET proj == Projection(p[1], p[2], g.foot_y, g.foot_x, g.light_dir)
          d    == At(g.dist, p[1], p[2])
          o    == At(g.opacity, p[1], p[2])
      IN  /\ d = IF proj < 0 THEN 0 ELSE proj
          /\ proj < 0 => o = ONE
          /\ 0 <= o /\ o <= ONE
          /\ \A q \in Pixels(g.dist) :
               d <= At(g.dist, q[1], q[2]) => o >= At(g.opacity, q[1], q[2])

C7_Witness ==
  /\ g.opacity # <<>>
  /\ \E p \in Pixels(g.dist) :
       Projection(p[1], p[2], g.foot_y, g.foot_x, g.light_dir) < 0
  /\ \E q \in Pixels(g.dist) :
       At(g.dist, q[1], q[2]) > 0 /\ At(g.opacity, q[1], q[2]) < ONE

\* C8: foot_y is the largest row holding a pixel above 0.2 and foot_x the
\* truncated mean column of all pixels above 0.2; both lie inside the image.
C8_FootPoint ==
  g.foot_y # -1 =>
    LET S == {p \in Pixels(g.mask) : 5 * At(g.mask, p[1], p[2]) > ONE}
        n == Cardinality(S)
        sx == SumOf(LAMBDA p : p[2], S)
    IN  /\ \E p \in S : p[1] = g.foot_y
        /\ \A p \in S : p[1] <= g.foot_y
        /\ g.foot_x * n <= sx /\ sx < (g.foot_x + 1) * n
        /\ 0 <= g.foot_y /\ g.foot_y < Len(bg)
        /\ 0 <= g.foot_x /\ g.foot_x < Len(bg[1])

\* a mask whose bottom row alone has another mean column
C8_Witness ==
  /\ g.foot_y # -1
  /\ LET R == {p \in Pixels(g.mask) :
                 5 * At(g.mask, p[1], p[2]) > ONE /\ p[1] = g.foot_y}
     IN  SumOf(LAMBDA p : p[2], R) >= (g.foot_x + 1) * Cardinality(R)

\* C9: the final shadow is max(soft, 0.85 contact) clipped to [0, 1]; above
\* row foot_y - 5 the contact opacity is 0 and the final shadow is the soft
\* shadow.
C9_FinalShadow ==
  g.final # <<>> =>
    \A p \in Pixels(g.final) :
      LET s == At(g.soft, p[1], p[2])
          c == At(g.contact, p[1], p[2])
          f == At(g.final, p[1], p[2])
          m == IF s >= (c * 85) \div 100 THEN s ELSE (c * 85) \div 100
      IN  /\ f = IF m < 0 THEN 0 ELSE IF m > ONE THEN ONE ELSE m
          /\ p[1] < g.foot_y - 5 => (c = 0 /\ f = s)
          /\ 0 <= f /\ f <= ONE

\* a pixel above the band that lies close enough to the silhouette for
\* exp(-contact_dist / 4) to be visible
C9_Witness ==
  /\ g.final # <<>>
  /\ \E p \in Pixels(g.final) :
       /\ p[1] < g.foot_y - 5
       /\ ContactOpacity(At(g.contact_dist, p[1], p[2])) > 0
  /\ \E q \in Pixels(g.final) : At(g.contact, q[1], q[2]) > 0

\* C10: each channel of the composite is bg (1 - shadow)(1 - mask) + fg mask
\* before the cast, lies in [0, 255] so that the cast does not wrap, is the
\* foreground where mask = 1 and the darkened background where mask = 0.
C10_Composite ==
  g.comp # <<>> =>
    \A p \in Pixels(bg) : \A c \in 1..3 :
      LET b  == At(bg, p[1], p[2])[c]
          f  == At(g.fg_rgb, p[1], p[2])[c]
          sh == At(g.final, p[1], p[2])
          m  == At(g.mask, p[1], p[2])
          v  == At(g.comp, p[1], p[2])[c]
          out == At(ret[1], p[1], p[2])[c]
      IN  /\ v = b * (ONE - sh) * (ONE - m) + f * m * ONE
          /\ 0 <= v /\ v <= 255 * ONE * ONE
          /\ out = v \div (ONE * ONE)
          /\ m = ONE => out = f
          /\ m = 0 => out = (b * (ONE - sh)) \div ONE

C10_Witness ==
  /\ g.comp # <<>>
  /\ \E p \in Pixels(bg) : At(g.mask, p[1], p[2]) = ONE
  /\ \E q \in Pixels(bg) :
       /\ At(g.mask, q[1], q[2]) = 0
       /\ At(g.final, q[1], q[2]) > 0
       /\ At(bg, q[1], q[2])[3] = 255
====
